---- MODULE Spec2Model ----
(***************************************************************************)
(* Model of the terminal map preview component (type MapPreview, package   *)
(* components, src/unnamed/part_003 lines 208-972): the viewport           *)
(* arithmetic, the Update message handler and the asynchronous WMS fetch.  *)
(*                                                                         *)
(* Numbers.  The viewport is float64 arithmetic over degrees.  The model   *)
(* computes it over the reals, exactly, in the ring Z[sqrt 2]: a quantity  *)
(* is a record [r, s] standing for (r + s*sqrt(2)) * 360/2^24 degrees, so  *)
(* that 360 degrees is [r |-> 2^24, s |-> 0].  Every value the code can    *)
(* form from zoom levels that are multiples of 0.5 (math.Pow(2, z) is a    *)
(* power of two, times sqrt(2) at the half levels), from halving and from  *)
(* the 12.5% pan step is exactly of that form.  float64 rounding (below    *)
(* 1e-12 degrees here) is not modelled.                                    *)
(* zoomLevel is counted in half levels: zoomLevel = 4 is the zoom 2.0.     *)
(***************************************************************************)
EXTENDS Integers, Sequences, FiniteSets, Bags, TLC

\* ------------------------------------------------------------------ bounds
\* Inputs with an effect (a mutating key, a metadata message, a close key
\* that runs the callback) handled in one behaviour of Spec.
MaxInputs == 2
\* Metadata messages delivered in one behaviour of Spec.
MaxMeta == 1
\* Viewport operations applied in one behaviour of SpecViewport.
MaxOps == 2
\* SpecStyles: style operations applied to the constructed struct.
MaxStyleOps == 3
\* SpecRender: results rendered by the constructed struct.
MaxRenders == 2

\* ------------------------------------------------------- program constants
\* zoomLevel < 20 / zoomLevel > 0, in half levels.
MaxZoom == 40
MinZoom == 0
\* zoomLevel: 2.0 at construction, in half levels.
InitZoom == 4
\* 360 degrees (worldWidth) in model units; 180 degrees, 90 degrees.
Deg360 == 16777216
Deg180 == 8388608
Deg90 == 4194304
Deg45 == Deg90 \div 2

\* --------------------------------------------------------------- numbers
Num(r, s) == [r |-> r, s |-> s]
Rat(r) == Num(r, 0)
Plus(a, b) == Num(a.r + b.r, a.s + b.s)
Minus(a, b) == Num(a.r - b.r, a.s - b.s)
Neg(a) == Num(0 - a.r, 0 - a.s)
\* x / 2 and x * 0.125; exact on every value the model forms.
Half(a) == Num(a.r \div 2, a.s \div 2)
Eighth(a) == Num(a.r \div 8, a.s \div 8)

\* p/q > a + 1/(1 + sqrt 2) for integers p, q > 0, by the continued fraction
\* sqrt 2 = [1; 2, 2, 2, ...]; with a = 1 this is p/q > sqrt 2.
RECURSIVE GtCF(_, _, _)
GtCF(p, q, a) ==
    LET n == p \div q
        rem == p % q
    IN  IF n > a THEN TRUE
        ELSE IF n < a THEN FALSE
        ELSE IF rem = 0 THEN FALSE
        ELSE ~GtCF(q, rem, 2)

\* r + s*sqrt 2 < 0
IsNeg(a) ==
    IF a.r <= 0 /\ a.s <= 0 THEN a.r < 0 \/ a.s < 0
    ELSE IF a.r >= 0 /\ a.s >= 0 THEN FALSE
    ELSE IF a.r < 0 THEN GtCF(0 - a.r, a.s, 1)
    ELSE ~GtCF(a.r, 0 - a.s, 1)

Lt(a, b) == IsNeg(Minus(a, b))
Gt(a, b) == Lt(b, a)

\* worldWidth * (1.0 / math.Pow(2, zoomLevel)) for a zoom of z half levels:
\* 360/2^(z/2), which at a half level is 360*sqrt(2)/2^((z+1)/2).
Scaled(world, z) ==
    IF z % 2 = 0 THEN Num(world \div (2 ^ (z \div 2)), 0)
    ELSE Num(0, world \div (2 ^ ((z + 1) \div 2)))

\* -------------------------------------------------------------- viewport
\* Mutant of updateBBox: an edge beyond the world is cut back to it and the
\* opposite edge stays, so the window shrinks.
updateBBoxShrinks(m) ==
    LET width == Scaled(Deg360, m.zoomLevel)
        height == Scaled(Deg180, m.zoomLevel)
        lo(v, edge) == IF Lt(v, Rat(0 - edge)) THEN Rat(0 - edge) ELSE v
        hi(v, edge) == IF Gt(v, Rat(edge)) THEN Rat(edge) ELSE v
    IN  [m EXCEPT !.bbox =
            << lo(Minus(m.centerX, Half(width)), Deg180),
               lo(Minus(m.centerY, Half(height)), Deg90),
               hi(Plus(m.centerX, Half(width)), Deg180),
               hi(Plus(m.centerY, Half(height)), Deg90) >>]

\* The four bbox entries are indexed 1..4 for the code's bbox[0..3].
updateBBox(m) ==
    LET width == Scaled(Deg360, m.zoomLevel)
        height == Scaled(Deg180, m.zoomLevel)
        b0 == << Minus(m.centerX, Half(width)), Minus(m.centerY, Half(height)),
                 Plus(m.centerX, Half(width)), Plus(m.centerY, Half(height)) >>
        b1 == IF Lt(b0[1], Rat(0 - Deg180))
              THEN [b0 EXCEPT ![1] = Rat(0 - Deg180),
                              ![3] = Plus(Rat(0 - Deg180), width)]
              ELSE b0
        b2 == IF Gt(b1[3], Rat(Deg180))
              THEN [b1 EXCEPT ![3] = Rat(Deg180),
                              ![1] = Minus(Rat(Deg180), width)]
              ELSE b1
        b3 == IF Lt(b2[2], Rat(0 - Deg90))
              THEN [b2 EXCEPT ![2] = Rat(0 - Deg90),
                              ![4] = Plus(Rat(0 - Deg90), height)]
              ELSE b2
        b4 == IF Gt(b3[4], Rat(Deg90))
              THEN [b3 EXCEPT ![4] = Rat(Deg90),
                              ![2] = Minus(Rat(Deg90), height)]
              ELSE b3
    IN  [m EXCEPT !.bbox = b4]

\* Mutant of zoomIn: no upper limit.
zoomInUnguarded(m) == updateBBox([m EXCEPT !.zoomLevel = m.zoomLevel + 1])

\* Mutant of zoomIn: a whole level at a time.
zoomInWholeLevel(m) ==
    IF m.zoomLevel < MaxZoom
    THEN updateBBox([m EXCEPT !.zoomLevel = m.zoomLevel + 2])
    ELSE m

zoomIn(m) ==
    IF m.zoomLevel < MaxZoom
    THEN updateBBox([m EXCEPT !.zoomLevel = m.zoomLevel + 1])
    ELSE m

\* Mutant of zoomOut: zooming out also goes back to the centre (0, 0).
zoomOutRecentres(m) ==
    IF m.zoomLevel > MinZoom
    THEN updateBBox([m EXCEPT !.zoomLevel = m.zoomLevel - 1,
                              !.centerX = Rat(0),
                              !.centerY = Rat(0)])
    ELSE m

zoomOut(m) ==
    IF m.zoomLevel > MinZoom
    THEN updateBBox([m EXCEPT !.zoomLevel = m.zoomLevel - 1])
    ELSE m

panUp(m) ==
    LET height == Minus(m.bbox[4], m.bbox[2])
    IN  updateBBox([m EXCEPT !.centerY = Plus(m.centerY, Eighth(height))])

panDown(m) ==
    LET height == Minus(m.bbox[4], m.bbox[2])
    IN  updateBBox([m EXCEPT !.centerY = Minus(m.centerY, Eighth(height))])

panLeft(m) ==
    LET width == Minus(m.bbox[3], m.bbox[1])
    IN  updateBBox([m EXCEPT !.centerX = Minus(m.centerX, Eighth(width))])

\* Mutant of panRight: an eighth of the width the zoom gives, not of the
\* bbox's.
panRightZoomWidth(m) ==
    updateBBox([m EXCEPT !.centerX =
                    Plus(m.centerX, Eighth(Scaled(Deg360, m.zoomLevel)))])

panRight(m) ==
    LET width == Minus(m.bbox[3], m.bbox[1])
    IN  updateBBox([m EXCEPT !.centerX = Plus(m.centerX, Eighth(width))])

\* Mutant of SetBounds: the bbox is set and the centre stays.
SetBoundsKeepsCentre(m, minX, minY, maxX, maxY) ==
    [m EXCEPT !.bbox = << minX, minY, maxX, maxY >>]

SetBounds(m, minX, minY, maxX, maxY) ==
    [m EXCEPT !.bbox = << minX, minY, maxX, maxY >>,
              !.centerX = Half(Plus(minX, maxX)),
              !.centerY = Half(Plus(minY, maxY))]

\* ---------------------------------------------------------------- styles
\* Mutant of nextStyle: the index runs past the end of the list.
nextStyleNoWrap(m) ==
    IF Len(m.styles) > 0
    THEN [m EXCEPT !.currentStyle = m.currentStyle + 1]
    ELSE m

nextStyle(m) ==
    IF Len(m.styles) > 0
    THEN [m EXCEPT !.currentStyle = (m.currentStyle + 1) % Len(m.styles)]
    ELSE m

prevStyle(m) ==
    IF Len(m.styles) > 0
    THEN IF m.currentStyle - 1 < 0
         THEN [m EXCEPT !.currentStyle = Len(m.styles) - 1]
         ELSE [m EXCEPT !.currentStyle = m.currentStyle - 1]
    ELSE m

SetStyles(m, styleNames) ==
    IF Len(styleNames) > 0
    THEN [m EXCEPT !.styles = styleNames, !.currentStyle = 0]
    ELSE [m EXCEPT !.styles = styleNames]

\* ------------------------------------------------------ stores, one by one
\* The methods above are what the event loop sees: the struct on return.
\* A fetch closure runs on its own goroutine and reads the same struct with
\* no synchronisation, so it can read between two stores of a method.  The
\* operators below list the struct after each store of a method, in program
\* order; the last element is the struct the method returns.
clampLowStores(s, i, j, edge, size) ==
    IF Lt(s.bbox[i], edge)
    THEN LET a == [s EXCEPT !.bbox[i] = edge]
         IN  << a, [a EXCEPT !.bbox[j] = Plus(a.bbox[i], size)] >>
    ELSE << s, s >>

clampHighStores(s, i, j, edge, size) ==
    IF Gt(s.bbox[i], edge)
    THEN LET a == [s EXCEPT !.bbox[i] = edge]
         IN  << a, [a EXCEPT !.bbox[j] = Minus(a.bbox[i], size)] >>
    ELSE << s, s >>

updateBBoxStores(m) ==
    LET width == Scaled(Deg360, m.zoomLevel)
        height == Scaled(Deg180, m.zoomLevel)
        x1 == Minus(m.centerX, Half(width))
        y1 == Minus(m.centerY, Half(height))
        x2 == Plus(m.centerX, Half(width))
        y2 == Plus(m.centerY, Half(height))
        raw == << [m EXCEPT !.bbox[1] = x1],
                  [m EXCEPT !.bbox[1] = x1, !.bbox[2] = y1],
                  [m EXCEPT !.bbox[1] = x1, !.bbox[2] = y1, !.bbox[3] = x2],
                  [m EXCEPT !.bbox[1] = x1, !.bbox[2] = y1, !.bbox[3] = x2,
                            !.bbox[4] = y2] >>
        west == clampLowStores(raw[4], 1, 3, Rat(0 - Deg180), width)
        east == clampHighStores(west[2], 3, 1, Rat(Deg180), width)
        south == clampLowStores(east[2], 2, 4, Rat(0 - Deg90), height)
        north == clampHighStores(south[2], 4, 2, Rat(Deg90), height)
    IN  raw \o west \o east \o south \o north

zoomInStores(m) ==
    IF m.zoomLevel < MaxZoom
    THEN LET m1 == [m EXCEPT !.zoomLevel = m.zoomLevel + 1]
         IN  << m1 >> \o updateBBoxStores(m1)
    ELSE << >>

zoomOutStores(m) ==
    IF m.zoomLevel > MinZoom
    THEN LET m1 == [m EXCEPT !.zoomLevel = m.zoomLevel - 1]
         IN  << m1 >> \o updateBBoxStores(m1)
    ELSE << >>

panUpStores(m) ==
    LET height == Minus(m.bbox[4], m.bbox[2])
        m1 == [m EXCEPT !.centerY = Plus(m.centerY, Eighth(height))]
    IN  << m1 >> \o updateBBoxStores(m1)

panDownStores(m) ==
    LET height == Minus(m.bbox[4], m.bbox[2])
        m1 == [m EXCEPT !.centerY = Minus(m.centerY, Eighth(height))]
    IN  << m1 >> \o updateBBoxStores(m1)

panLeftStores(m) ==
    LET width == Minus(m.bbox[3], m.bbox[1])
        m1 == [m EXCEPT !.centerX = Minus(m.centerX, Eighth(width))]
    IN  << m1 >> \o updateBBoxStores(m1)

panRightStores(m) ==
    LET width == Minus(m.bbox[3], m.bbox[1])
        m1 == [m EXCEPT !.centerX = Plus(m.centerX, Eighth(width))]
    IN  << m1 >> \o updateBBoxStores(m1)

\* SetBounds stores the four entries of the array, then the centre.
SetBoundsStores(m, minX, minY, maxX, maxY) ==
    LET s1 == [m EXCEPT !.bbox[1] = minX]
        s2 == [s1 EXCEPT !.bbox[2] = minY]
        s3 == [s2 EXCEPT !.bbox[3] = maxX]
        s4 == [s3 EXCEPT !.bbox[4] = maxY]
        s5 == [s4 EXCEPT !.centerX = Half(Plus(minX, maxX))]
        s6 == [s5 EXCEPT !.centerY = Half(Plus(minY, maxY))]
    IN  << s1, s2, s3, s4, s5, s6 >>

nextStyleStores(m) ==
    IF Len(m.styles) > 0
    THEN << [m EXCEPT !.currentStyle = (m.currentStyle + 1) % Len(m.styles)] >>
    ELSE << >>

\* prevStyle decrements the index in place and wraps it afterwards: at index
\* 0 the struct holds -1 between the two stores.
prevStyleStores(m) ==
    IF Len(m.styles) > 0
    THEN LET s1 == [m EXCEPT !.currentStyle = m.currentStyle - 1]
         IN  IF s1.currentStyle < 0
             THEN << s1, [s1 EXCEPT !.currentStyle = Len(m.styles) - 1] >>
             ELSE << s1 >>
    ELSE << >>

SetStylesStores(m, styleNames) ==
    LET s1 == [m EXCEPT !.styles = styleNames]
    IN  IF Len(styleNames) > 0
        THEN << s1, [s1 EXCEPT !.currentStyle = 0] >>
        ELSE << s1 >>

\* m.styles = styleNames stores a slice header of three words.  A closure
\* that reads len(m.styles) and m.styles[m.currentStyle] during SetStyles can
\* pair the length of one list with the array of the other; when the index
\* is inside one list and outside the other, the element it reads does not
\* exist (the constructed list, []string{}, has no element): the read is
\* outside the array, and one of its outcomes is that the closure faults.
\* The others are the reads of the old and of the new list.
SetStylesTears(m, styleNames) ==
    LET a == Len(m.styles)
        b == Len(styleNames)
    IN  /\ m.currentStyle >= (IF a < b THEN a ELSE b)
        /\ m.currentStyle < (IF a < b THEN b ELSE a)

\* ------------------------------------------------------- protocol detection
ProtocolKitty == "ProtocolKitty"
ProtocolSixel == "ProtocolSixel"
ProtocolChafa == "ProtocolChafa"
ProtocolASCII == "ProtocolASCII"

\* env: [termKitty: TERM contains "kitty", kittyId: KITTY_WINDOW_ID is set,
\*       img2sixel, chafa: exec.LookPath finds the helper]
isKittyTerminal(env) == env.termKitty \/ env.kittyId

\* Mutant of detectImageProtocol: chafa is looked up before img2sixel.
detectImageProtocolChafaFirst(env) ==
    IF isKittyTerminal(env) THEN ProtocolKitty
    ELSE IF env.chafa THEN ProtocolChafa
    ELSE IF env.img2sixel THEN ProtocolSixel
    ELSE ProtocolASCII

detectImageProtocol(env) ==
    IF isKittyTerminal(env) THEN ProtocolKitty
    ELSE IF env.img2sixel THEN ProtocolSixel
    ELSE IF env.chafa THEN ProtocolChafa
    ELSE ProtocolASCII

Envs == [termKitty : BOOLEAN, kittyId : BOOLEAN, img2sixel : BOOLEAN, chafa : BOOLEAN]

\* ------------------------------------------------------------- image bytes
\* A response body: no bytes, bytes that are not a PNG, or the PNG encoding
\* of an image [dx, dy, pix], pix[<<x, y>>] being the pixel's
\* color.Color.RGBA() value <<r, g, b, a>> (16 bits a channel).
EmptyBytes == [kind |-> "empty"]
GarbageBytes == [kind |-> "garbage"]
PngBytes(img) == [kind |-> "png", img |-> img]

Opaque(v) == << v, v, v, 65535 >>
Transparent == << 0, 0, 0, 0 >>
\* 2x2: black and transparent on the first row, white and mid grey below.
ImgA ==
    [dx |-> 2, dy |-> 2,
     pix |-> [p \in {0, 1} \X {0, 1} |->
                 IF p = << 0, 0 >> THEN Opaque(0)
                 ELSE IF p = << 1, 0 >> THEN Transparent
                 ELSE IF p = << 0, 1 >> THEN Opaque(65535)
                 ELSE Opaque(32768)]]

\* 2x2: red and an alpha of 127 on the first row, yellow and an alpha of 128
\* (premultiplied white) below.
ImgB ==
    [dx |-> 2, dy |-> 2,
     pix |-> [p \in {0, 1} \X {0, 1} |->
                 IF p = << 0, 0 >> THEN << 65535, 0, 0, 65535 >>
                 ELSE IF p = << 1, 0 >> THEN << 127, 127, 127, 127 >>
                 ELSE IF p = << 0, 1 >> THEN << 65535, 65535, 0, 65535 >>
                 ELSE << 128, 128, 128, 128 >>]]

Bodies == {EmptyBytes, GarbageBytes, PngBytes(ImgA), PngBytes(ImgB)}

\* --------------------------------------------------------------- rendering
\* A rendered string is modelled as the sequence of its lines, a line as
\* the sequence of its glyphs (each line of the ASCII renderer ends with a
\* newline, which the sequence leaves implicit); << >> is the string "".
\* A message or a helper's output is a single line of one token.
EmptyString == << >>
Text(token) == << << token >> >>

Chars == << " ", ".", ":", "-", "=", "+", "*", "#", "%", "@" >>

Clamp(v, lo, hi) == IF v > hi THEN hi ELSE IF v < lo THEN lo ELSE v

\* The index into chars of a pixel's r, g, b.
GlyphIndex(c) ==
    LET gray == (c[1] + c[2] + c[3]) \div 3
    IN  (gray * (Len(Chars) - 1)) \div 65535

Glyph(img, px, py) ==
    LET c == img.pix[<< px, py >>]
    IN  IF c[4] < 128 THEN " " ELSE Chars[GlyphIndex(c) + 1]

\* 2^t modulo n, by repeated doubling.
RECURSIVE Pow2Mod(_, _)
Pow2Mod(t, n) == IF t = 0 THEN 1 % n ELSE (2 * Pow2Mod(t - 1, n)) % n

\* 2^e <= extent / n, for an exponent e of either sign.
Pow2AtMost(e, extent, n) ==
    IF e >= 0 THEN (2 ^ e) * n <= extent ELSE n <= extent * (2 ^ (0 - e))

\* The binary exponent of the quotient extent / n.
ScaleExponent(extent, n) ==
    CHOOSE e \in -12..12 : Pow2AtMost(e, extent, n) /\ ~Pow2AtMost(e + 1, extent, n)

\* The j with 2^j < k <= 2^(j+1), for k >= 1.
ProductExponent(k) ==
    IF k = 1 THEN -1 ELSE CHOOSE j \in 0..29 : 2 ^ j < k /\ k <= 2 ^ (j + 1)

\* int(float64(i) * xScale) with xScale := float64(extent) / float64(n), in
\* IEEE 754 double arithmetic (53-bit significands, round to nearest even),
\* for 0 <= i < n <= 100 and 1 <= extent <= 2048.  The product of i and the
\* rounded quotient is the exact quotient i*extent/n unless n divides
\* i*extent while the quotient extent/n was rounded down: the product is
\* then below the integer k = i*extent/n by i times the rounding error of
\* the quotient, and it rounds back up to k only if that is at most half
\* the spacing of the doubles below k.  With t = 52 - ScaleExponent, the
\* rounding error of the quotient is rho / (n * 2^t), rho the remainder of
\* extent * 2^t by n, and the quotient is rounded down when 2 * rho < n.
PixelIndex(i, extent, n) ==
    LET k == (i * extent) \div n
    IN  IF (i * extent) % n # 0 \/ k = 0 THEN k
        ELSE LET e == ScaleExponent(extent, n)
                 rho == (extent * Pow2Mod(52 - e, n)) % n
                 a == ProductExponent(k) - e - 1
             IN  IF rho = 0 \/ 2 * rho > n THEN k
                 ELSE IF a >= 0
                 THEN (IF i * rho > n * (2 ^ a) THEN k - 1 ELSE k)
                 ELSE (IF i * rho * (2 ^ (0 - a)) > n THEN k - 1 ELSE k)

\* The source pixel of cell i of n cells along an axis of extent pixels.
Sample(i, extent, n) ==
    LET p == PixelIndex(i, extent, n)
    IN  IF p >= extent THEN extent - 1 ELSE p

\* Mutant of asciiOf: bytes that do not decode give no string.
asciiOfNoPlaceholder(d, width, height) ==
    IF d.kind # "png" THEN EmptyString
    ELSE LET img == d.img
             asciiWidth == Clamp(width - 4, 40, 100)
             asciiHeight == Clamp(height - 8, 15, 40)
         IN  [y \in 1..asciiHeight |->
                 [x \in 1..asciiWidth |->
                     Glyph(img, Sample(x - 1, img.dx, asciiWidth),
                                Sample(y - 1, img.dy, asciiHeight))]]

\* renderASCII on image bytes d for a component of the given size.
asciiOf(d, width, height) ==
    IF d.kind # "png" THEN Text("[Image decode error]")
    ELSE LET img == d.img
             asciiWidth == Clamp(width - 4, 40, 100)
             asciiHeight == Clamp(height - 8, 15, 40)
         IN  [y \in 1..asciiHeight |->
                 [x \in 1..asciiWidth |->
                     Glyph(img, Sample(x - 1, img.dx, asciiWidth),
                                Sample(y - 1, img.dy, asciiHeight))]]

\* The sizes the parent gives the component: a terminal of 102 columns and
\* 30 rows, and one larger than the largest grid.
Sizes == {<< 102, 30 >>, << 200, 60 >>}

\* The component sizes of the model (Go's zero values until SetSize is
\* called), and asciiOf tabulated over them, so that it is computed once.
Widths == {0} \cup {sz[1] : sz \in Sizes}
Heights == {0} \cup {sz[2] : sz \in Sizes}
asciiTable == [d \in Bodies, w \in Widths, hh \in Heights |-> asciiOf(d, w, hh)]

renderASCII(m) == asciiTable[m.imageData, m.width, m.height]

\* h: what the helper processes do in this render.  h.tmp: the temporary
\* file is created and written; h.first, h.second: the first and the second
\* helper invocation exit with status 0.  A helper's output is its name.
HelperOutcomes == [tmp : BOOLEAN, first : BOOLEAN, second : BOOLEAN]
Outcome(tmp, first, second) == [tmp |-> tmp, first |-> first, second |-> second]

\* The outcomes a render under the protocol can tell apart: it does not
\* reach the second invocation unless the first one failed, and so on.
OutcomesFor(protocol) ==
    IF protocol = ProtocolKitty
    THEN {Outcome(FALSE, FALSE, FALSE), Outcome(TRUE, TRUE, FALSE),
          Outcome(TRUE, FALSE, TRUE), Outcome(TRUE, FALSE, FALSE)}
    ELSE IF protocol = ProtocolSixel
    THEN {Outcome(TRUE, TRUE, FALSE), Outcome(TRUE, FALSE, FALSE)}
    ELSE IF protocol = ProtocolChafa
    THEN {Outcome(FALSE, FALSE, FALSE), Outcome(TRUE, TRUE, FALSE),
          Outcome(TRUE, FALSE, FALSE)}
    ELSE {Outcome(TRUE, TRUE, FALSE)}

\* The helper invocations a render makes, in order.
KittyCmd == "chafa --format kitty"
SymbolsCmd == "chafa --format symbols"
SixelCmd == "img2sixel"
ChafaCmd == "chafa --colors 256"

kittyCalls(h) ==
    IF ~h.tmp THEN << >>
    ELSE IF h.first THEN << KittyCmd >>
    ELSE << KittyCmd, SymbolsCmd >>

sixelCalls(h) == << SixelCmd >>

chafaCalls(h) == IF ~h.tmp THEN << >> ELSE << ChafaCmd >>

helperCalls(mm, h) ==
    IF mm.imageData.kind = "empty" THEN << >>
    ELSE IF mm.protocol = ProtocolKitty THEN kittyCalls(h)
    ELSE IF mm.protocol = ProtocolSixel THEN sixelCalls(h)
    ELSE IF mm.protocol = ProtocolChafa THEN chafaCalls(h)
    ELSE << >>

\* Mutant of renderKitty: no second attempt in symbols mode.
renderKittyNoRetry(m, h) ==
    IF ~h.tmp THEN renderASCII(m)
    ELSE IF h.first THEN Text("<chafa --format kitty>")
    ELSE renderASCII(m)

renderKitty(m, h) ==
    IF ~h.tmp THEN renderASCII(m)
    ELSE IF h.first THEN Text("<chafa --format kitty>")
    ELSE IF h.second THEN Text("<chafa --format symbols>")
    ELSE renderASCII(m)

renderSixel(m, h) ==
    IF h.first THEN Text("<img2sixel>") ELSE renderASCII(m)

renderChafa(m, h) ==
    IF ~h.tmp THEN renderASCII(m)
    ELSE IF h.first THEN Text("<chafa --colors 256>")
    ELSE renderASCII(m)

renderImage(m, h) ==
    IF m.imageData.kind = "empty" THEN EmptyString
    ELSE IF m.protocol = ProtocolKitty THEN renderKitty(m, h)
    ELSE IF m.protocol = ProtocolSixel THEN renderSixel(m, h)
    ELSE IF m.protocol = ProtocolChafa THEN renderChafa(m, h)
    ELSE renderASCII(m)

\* View: the title, the control bar with the zoom ("%.1f" of the half
\* levels) and the style name, the status line, the frame.
ZoomText(z) == ToString(z \div 2) \o (IF z % 2 = 0 THEN ".0" ELSE ".5")

View(mm) ==
    IF ~mm.visible THEN EmptyString
    ELSE LET styleName ==
                 IF Len(mm.styles) > 0 /\ mm.currentStyle < Len(mm.styles)
                 THEN mm.styles[mm.currentStyle + 1] ELSE "default"
             title == << << "Layer Preview" >>, << >> >>
             controlBar ==
                 << << "Zoom:", ZoomText(mm.zoomLevel), "Pan:", "Style:", styleName,
                       "refresh", "close" >>, << >> >>
             status ==
                 IF mm.errorMsg # "" THEN << << "Error: ", mm.errorMsg >> >>
                 ELSE IF mm.loading THEN << << "spinner", " Loading map..." >> >>
                 ELSE << >>
             frame ==
                 IF ~mm.loading /\ mm.renderedImage # EmptyString
                 THEN mm.renderedImage ELSE << >>
         IN  title \o controlBar \o status \o frame

\* ------------------------------------------------------------------ state
VARIABLES
    m,          \* the MapPreview struct
    pending,    \* fetch commands returned by Update whose closure has not started
    sent,       \* the bag of the closures that run and have not returned: what
                \* each has read of its request so far
    done,       \* fetch closures whose message Update has handled
    closeCalls, \* how often the onClose callback has run
    nMeta,      \* MapPreviewMetadataMsg messages handled so far
    frameReq,   \* history: the request whose result m.imageData came from
    ops,        \* SpecViewport only: operations applied so far
    lastOp,     \* SpecViewport only, history: the operation applied last
    environ     \* the process environment the constructor read (TERM, PATH, ...)

vars == << m, pending, sent, done, closeCalls, nMeta, frameReq, ops, lastOp,
          environ >>

NilError == "<nil>"
\* No request: m.imageData came from no fetch.
NoReq == [style |-> "", imgWidth |-> 0, imgHeight |-> 0, bbox |-> << >>]

SetSize(mm, width, height) ==
    [mm EXCEPT !.width = width,
               !.height = height,
               !.imgWidth = Clamp((width - 20) * 8, 256, 1024),
               !.imgHeight = Clamp((height - 10) * 16, 192, 768)]

\* NewMapPreview; width and height are Go's zero values until SetSize.
NewMapPreview(env) ==
    [styles |-> << >>,
     currentStyle |-> 0,
     width |-> 0,
     height |-> 0,
     visible |-> TRUE,
     loading |-> TRUE,
     errorMsg |-> "",
     imageData |-> EmptyBytes,
     renderedImage |-> EmptyString,
     zoomLevel |-> InitZoom,
     centerX |-> Rat(0),
     centerY |-> Rat(0),
     bbox |-> << Rat(0 - Deg180), Rat(0 - Deg90), Rat(Deg180), Rat(Deg90) >>,
     imgWidth |-> 800,
     imgHeight |-> 600,
     protocol |-> detectImageProtocol(env),
     onClose |-> FALSE]

\* SetOnClose; fn: TRUE for a function, FALSE for nil.
SetOnClose(mm, fn) == [mm EXCEPT !.onClose = fn]

\* The environments the component is constructed in: a plain terminal
\* without helpers, and a kitty terminal.
SpecEnvs == {env \in Envs : ~env.img2sixel /\ ~env.chafa /\ env.termKitty = env.kittyId}

Init ==
    /\ environ \in SpecEnvs
    /\ m = NewMapPreview(environ)
    /\ pending = 0
    /\ sent = EmptyBag
    /\ done = 0
    /\ closeCalls = 0
    /\ nMeta = 0
    /\ frameReq = NoReq
    /\ ops = 0
    /\ lastOp = "none"

\* --------------------------------------------------------------- key map
\* m.keyMap, as DefaultMapPreviewKeyMap() builds it.
keyMap ==
    [Close |-> {"esc", "q"},
     ZoomIn |-> {"+", "="},
     ZoomOut |-> {"-", "_"},
     PanUp |-> {"up", "k"},
     PanDown |-> {"down", "j"},
     PanLeft |-> {"left", "h"},
     PanRight |-> {"right", "l"},
     Refresh |-> {"r"},
     NextStyle |-> {"s"},
     PrevStyle |-> {"S"}]

\* The keys the model presses: one per binding, and one that is not bound.
Keys == {"esc", "+", "-", "up", "down", "left", "right", "r", "s", "S", "x"}

Bound == UNION {keyMap[b] : b \in DOMAIN keyMap}

\* ------------------------------------------------------------ fetch tasks
\* fetchMap() builds the command; the closure runs later, on its own
\* goroutine, and reads the struct then, field by field and with no
\* synchronisation with Update, which may be storing to the same fields.
Issued == pending + BagCardinality(sent) + done

\* The closure's read of the style: the guard, then the element.  An index
\* below zero passes the guard and is outside the list: the read panics.
Panic == "<panic>"
StyleRead(mm) ==
    IF Len(mm.styles) > 0 /\ mm.currentStyle < Len(mm.styles)
    THEN IF mm.currentStyle < 0 THEN Panic ELSE mm.styles[mm.currentStyle + 1]
    ELSE ""

\* The request a closure builds when it reads all of the struct mm at once.
Request(mm) ==
    [style |-> StyleRead(mm),
     imgWidth |-> mm.imgWidth,
     imgHeight |-> mm.imgHeight,
     bbox |-> mm.bbox]

\* A running closure: what it has read so far.  It stores m.loading, then
\* reads the style and the image size (no handler stores the size), then
\* bbox[0], bbox[1], bbox[2], bbox[3], one load each.
Launched == [style |-> "<unread>", imgWidth |-> 0, imgHeight |-> 0, bbox |-> << >>]
Started(view) == [view EXCEPT !.bbox = << >>]
Complete(r) == r # Launched /\ Len(r.bbox) = 4

\* A closure whose style read panicked.  The panic is not recovered: it ends
\* the process, and with it the event loop.
PanicReq == [style |-> Panic, imgWidth |-> 0, imgHeight |-> 0, bbox |-> << >>]
Crashed == BagIn(PanicReq, sent)

\* What a closure can read while a handler runs: the request of the struct
\* before the handler and after each of its stores (stores that change
\* nothing a closure reads are left out).
RECURSIVE Compress(_)
Compress(V) ==
    IF Len(V) < 2 THEN V
    ELSE IF V[1] = V[2] THEN Compress(Tail(V))
    ELSE << V[1] >> \o Compress(Tail(V))

Views(mm, stores) ==
    Compress(<< Request(mm) >> \o [i \in 1..Len(stores) |-> Request(stores[i])])

\* The states of closure r after a handler with views V, when r's next load
\* is no earlier than view p: r goes on for any number of its remaining
\* loads, each from a view no earlier than the one before.  A style read
\* that panics is PanicsDuring.
RECURSIVE Reads(_, _, _)
Reads(r, V, p) ==
    {r} \cup
    (IF r = Launched
     THEN UNION {Reads(Started(V[q]), V, q) :
                     q \in {i \in p..Len(V) : V[i].style # Panic}}
     ELSE IF Complete(r) THEN {}
     ELSE UNION {Reads([r EXCEPT !.bbox = Append(r.bbox, V[q].bbox[Len(r.bbox) + 1])],
                       V, q) : q \in p..Len(V)})

\* The running closures of bag B after a handler with views V.
RECURSIVE Progress(_, _)
Progress(B, V) ==
    IF B = EmptyBag THEN {EmptyBag}
    ELSE LET r == CHOOSE x \in BagToSet(B) : TRUE
         IN  {SetToBag({r2}) (+) b2 :
                  r2 \in Reads(r, V, 1), b2 \in Progress(B (-) SetToBag({r}), V)}

\* k closures that start while the handler runs.
RECURSIVE StartAll(_, _)
StartAll(k, V) ==
    IF k = 0 THEN {EmptyBag}
    ELSE {SetToBag({r}) (+) b : r \in Reads(Launched, V, 1), b \in StartAll(k - 1, V)}

\* Update handles a message: it returns the struct m2 after the given
\* stores and, for issue, the command fetchMap() built.  Meanwhile the
\* running closures of bag B go on, and any of the commands returned earlier
\* starts its closure and stores m.loading = true.  A handler that clears
\* m.loading does so before its other stores, none of which a closure reads:
\* the closure's store lasts when it comes after the handler's, and then the
\* closure has read nothing earlier than the handler's last store.
Handles(B, m2, stores, clears, issue) ==
    /\ ~Crashed
    /\ LET V == Views(m, stores)
       IN  \E k \in 0..pending :
               /\ pending' = pending - k + (IF issue THEN 1 ELSE 0)
               /\ \E late \in IF clears /\ k > 0 THEN BOOLEAN ELSE {FALSE} :
                      /\ m' = [m2 EXCEPT !.loading = IF clears THEN @ \/ late ELSE @ \/ k > 0]
                      /\ \E old \in Progress(B, V), new \in StartAll(k, V) :
                             /\ late => \E r \in BagToSet(new) :
                                            r \in Reads(Launched, << V[Len(V)] >>, 1)
                             /\ sent' = old (+) new
    /\ UNCHANGED << ops, lastOp, environ >>

\* A closure's style read panics while a handler runs.  stores: the handler's
\* stores in program order, none of them clearing m.loading, the last the
\* struct it returns; fresh: the closure is one that starts while the handler
\* runs, else one that had stored m.loading before.  The panic ends the
\* process when the event loop has made j of the stores, or, for j above
\* their number, is back from the handler, with the command it returned.
\* Until then the other closures go on as in Handles.
PanicsDuring(stores, j, fresh, issue) ==
    /\ ~Crashed
    /\ IF fresh THEN pending > 0 ELSE BagIn(Launched, sent)
    /\ LET n == IF j > Len(stores) THEN Len(stores) ELSE j
           V == Views(m, SubSeq(stores, 1, n))
           B == IF fresh THEN sent ELSE sent (-) SetToBag({Launched})
           free == IF fresh THEN pending - 1 ELSE pending
       IN  \E k \in 0..free :
               /\ pending' = free - k + (IF j > Len(stores) /\ issue THEN 1 ELSE 0)
               /\ m' = [stores[n] EXCEPT !.loading = @ \/ fresh \/ k > 0]
               /\ \E old \in Progress(B, V), new \in StartAll(k, V) :
                      sent' = old (+) new (+) SetToBag({PanicReq})
    /\ UNCHANGED << ops, lastOp, environ >>

\* A handler that stores nothing a closure reads and leaves m.loading.
Returns(m2, issue) ==
    /\ UNCHANGED done
    /\ Handles(sent, m2, << >>, FALSE, issue)

\* A handler that makes the given stores, sets m.loading and returns the
\* command fetchMap() built.
ReturnsDuring(m2, stores) ==
    /\ UNCHANGED done
    /\ Handles(sent, m2, stores, FALSE, TRUE)

\* The stores of the method a key calls.
KeyStores(k) ==
    IF k \in keyMap.ZoomIn THEN zoomInStores(m)
    ELSE IF k \in keyMap.ZoomOut THEN zoomOutStores(m)
    ELSE IF k \in keyMap.PanUp THEN panUpStores(m)
    ELSE IF k \in keyMap.PanDown THEN panDownStores(m)
    ELSE IF k \in keyMap.PanLeft THEN panLeftStores(m)
    ELSE IF k \in keyMap.PanRight THEN panRightStores(m)
    ELSE IF k \in keyMap.NextStyle THEN nextStyleStores(m)
    ELSE IF k \in keyMap.PrevStyle THEN prevStyleStores(m)
    ELSE << >>

CanIssue == Issued + closeCalls < MaxInputs

\* Mutant of Mutate: the old frame is left in place.
MutateKeepsFrame(k, m2) ==
    /\ CanIssue
    /\ UNCHANGED << closeCalls, nMeta, frameReq >>
    /\ ReturnsDuring([m2 EXCEPT !.loading = TRUE], KeyStores(k))

\* Mutant of KeyOther: a key without a binding refreshes.
KeyOtherRefreshes(k) ==
    /\ k \notin Bound
    /\ CanIssue
    /\ UNCHANGED << closeCalls, nMeta, frameReq >>
    /\ Returns([m EXCEPT !.loading = TRUE, !.renderedImage = EmptyString], TRUE)

\* Mutant of KeyClose: the callback runs and the component stays visible.
KeyCloseStaysVisible(k) ==
    /\ m.onClose => CanIssue
    /\ closeCalls' = IF m.onClose THEN closeCalls + 1 ELSE closeCalls
    /\ UNCHANGED << nMeta, frameReq >>
    /\ Returns(m, FALSE)

\* A mutating key: the method, loading = true, renderedImage = "", fetchMap.
Mutate(k, m2) ==
    /\ CanIssue
    /\ UNCHANGED << closeCalls, nMeta, frameReq >>
    /\ ReturnsDuring([m2 EXCEPT !.loading = TRUE, !.renderedImage = EmptyString],
                     KeyStores(k))

KeyClose(k) ==
    /\ k \in keyMap.Close
    /\ m.onClose => CanIssue
    /\ closeCalls' = IF m.onClose THEN closeCalls + 1 ELSE closeCalls
    /\ UNCHANGED << nMeta, frameReq >>
    /\ Returns([m EXCEPT !.visible = FALSE], FALSE)

KeyZoomIn(k) == k \in keyMap.ZoomIn /\ Mutate(k, zoomIn(m))
KeyZoomOut(k) == k \in keyMap.ZoomOut /\ Mutate(k, zoomOut(m))
KeyPanUp(k) == k \in keyMap.PanUp /\ Mutate(k, panUp(m))
KeyPanDown(k) == k \in keyMap.PanDown /\ Mutate(k, panDown(m))
KeyPanLeft(k) == k \in keyMap.PanLeft /\ Mutate(k, panLeft(m))
KeyPanRight(k) == k \in keyMap.PanRight /\ Mutate(k, panRight(m))
KeyRefresh(k) == k \in keyMap.Refresh /\ Mutate(k, m)
KeyNextStyle(k) == k \in keyMap.NextStyle /\ Mutate(k, nextStyle(m))
KeyPrevStyle(k) == k \in keyMap.PrevStyle /\ Mutate(k, prevStyle(m))

KeyOther(k) ==
    /\ k \notin Bound
    /\ UNCHANGED << closeCalls, nMeta, frameReq >>
    /\ Returns(m, FALSE)

\* The parent calls SetOnClose, from the event loop.
CallSetOnClose(fn) ==
    /\ UNCHANGED << closeCalls, nMeta, frameReq >>
    /\ Returns(SetOnClose(m, fn), FALSE)

SpinnerTick ==
    /\ UNCHANGED << closeCalls, nMeta, frameReq >>
    /\ Returns(m, FALSE)

\* ------------------------------------------------------- metadata message
\* msg.Bounds: nil, or a layer extent; msg.Styles: the style names.
NilBounds == << >>
ExtentA == << Rat(0), Rat(0), Rat(Deg90), Rat(Deg45) >>
ExtentB == << Rat(Deg90), Rat(0), Rat(Deg180), Rat(Deg90) >>
\* An extent that touches no world edge and is half as wide as the window of
\* the constructed zoom.
ExtentC == << Rat(0), Rat(0), Rat(Deg45), Rat(Deg45) >>
MetaBounds == {NilBounds, ExtentB}
MetaStyles == {<< >>, << "line", "point" >>}

MetadataStores(b, s) ==
    LET m1 == IF b # NilBounds THEN SetBounds(m, b[1], b[2], b[3], b[4]) ELSE m
    IN  (IF b # NilBounds THEN SetBoundsStores(m, b[1], b[2], b[3], b[4]) ELSE << >>)
            \o (IF Len(s) > 0 THEN SetStylesStores(m1, s) ELSE << >>)

UpdateMetadata(b, s) ==
    /\ CanIssue
    /\ nMeta < MaxMeta
    /\ nMeta' = nMeta + 1
    /\ UNCHANGED << closeCalls, frameReq >>
    /\ LET m1 == IF b # NilBounds THEN SetBounds(m, b[1], b[2], b[3], b[4]) ELSE m
           m2 == IF Len(s) > 0 THEN SetStyles(m1, s) ELSE m1
       IN  ReturnsDuring([m2 EXCEPT !.loading = TRUE], MetadataStores(b, s))

\* ------------------------------------------------------------ fetch closure
\* The closure starts on its goroutine while no handler runs: it stores
\* m.loading.
FetchStart ==
    /\ ~Crashed
    /\ pending > 0
    /\ pending' = pending - 1
    /\ UNCHANGED << done, closeCalls, nMeta, frameReq, ops, lastOp, environ >>
    /\ m' = [m EXCEPT !.loading = TRUE]
    /\ sent' = sent (+) SetToBag({Launched})

\* A closure that has stored m.loading reads the style and the image size
\* while no handler runs.
FetchStyle ==
    /\ ~Crashed
    /\ BagIn(Launched, sent)
    /\ UNCHANGED << m, pending, done, closeCalls, nMeta, frameReq, ops, lastOp,
                    environ >>
    /\ sent' = (sent (-) SetToBag({Launched})) (+)
                   SetToBag({IF StyleRead(m) = Panic THEN PanicReq
                             ELSE Started(Request(m))})

\* A running closure loads its remaining bbox entries while no handler runs.
FetchRead ==
    /\ ~Crashed
    /\ UNCHANGED << m, pending, done, closeCalls, nMeta, frameReq, ops, lastOp,
                    environ >>
    /\ \E r \in BagToSet(sent) :
           /\ r # Launched
           /\ ~Complete(r)
           /\ sent' = (sent (-) SetToBag({r})) (+)
                          SetToBag({[r EXCEPT !.bbox =
                                        r.bbox \o SubSeq(m.bbox, Len(r.bbox) + 1, 4)]})

\* A closure reads the style while the S key's handler is between the two
\* stores of prevStyle: the index is -1, the guard passes, the element read
\* panics.
FetchPanicsPrevStyle(k) ==
    /\ k \in keyMap.PrevStyle
    /\ Len(prevStyleStores(m)) = 2
    /\ UNCHANGED << done, closeCalls, nMeta, frameReq >>
    /\ LET m1 == [prevStyle(m) EXCEPT !.loading = TRUE]
           stores == prevStyleStores(m)
                         \o << m1, [m1 EXCEPT !.renderedImage = EmptyString] >>
       IN  \E j \in 1..Len(stores) + 1, fresh \in BOOLEAN :
               PanicsDuring(stores, j, fresh, TRUE)

\* A closure reads the style while the metadata handler is inside SetStyles
\* and pairs the length of the new list with the array of the old one.
FetchPanicsSetStyles(b, s) ==
    /\ nMeta < MaxMeta
    /\ Len(s) > 0
    /\ SetStylesTears(m, s)
    /\ UNCHANGED << done, closeCalls, frameReq >>
    /\ LET before == IF b # NilBounds
                     THEN SetBoundsStores(m, b[1], b[2], b[3], b[4]) ELSE << >>
           after == MetadataStores(b, s)
           stores == after \o << [after[Len(after)] EXCEPT !.loading = TRUE] >>
       IN  \E j \in Len(before) + 1..Len(stores) + 1, fresh \in BOOLEAN :
               /\ nMeta' = IF j > Len(stores) THEN nMeta + 1 ELSE nMeta
               /\ PanicsDuring(stores, j, fresh, TRUE)

\* What a closure returns: image bytes, or an error.
ErrorTexts == {"WMS error (500): ServiceException"}
FetchedBodies == {EmptyBytes, PngBytes(ImgA)}
Results ==
    {[ImageData |-> b, Error |-> NilError] : b \in FetchedBodies}
        \cup {[ImageData |-> EmptyBytes, Error |-> e] : e \in ErrorTexts}

\* Mutant of OnMapPreviewMsg: a success leaves the old error message.
OnMapPreviewMsgKeepsError(mm, msg, h) ==
    IF msg.Error # NilError
    THEN [mm EXCEPT !.loading = FALSE,
                    !.errorMsg = msg.Error,
                    !.imageData = EmptyBytes,
                    !.renderedImage = EmptyString]
    ELSE LET m1 == [mm EXCEPT !.loading = FALSE, !.imageData = msg.ImageData]
         IN  [m1 EXCEPT !.renderedImage = renderImage(m1, h)]

\* Mutant of OnMapPreviewMsg: a frame that fell back to ASCII makes ASCII the
\* protocol of the component.
OnMapPreviewMsgDegrades(mm, msg, h) ==
    IF msg.Error # NilError
    THEN [mm EXCEPT !.loading = FALSE,
                    !.errorMsg = msg.Error,
                    !.imageData = EmptyBytes,
                    !.renderedImage = EmptyString]
    ELSE LET m1 == [mm EXCEPT !.loading = FALSE,
                              !.errorMsg = "",
                              !.imageData = msg.ImageData]
             s == renderImage(m1, h)
         IN  [m1 EXCEPT !.renderedImage = s,
                        !.protocol = IF s # EmptyString /\ s = renderASCII(m1)
                                     THEN ProtocolASCII ELSE @]

\* Mutant of OnMapPreviewMsg: an error leaves the loading flag as it was.
OnMapPreviewMsgErrorKeepsLoading(mm, msg, h) ==
    IF msg.Error # NilError
    THEN [mm EXCEPT !.errorMsg = msg.Error,
                    !.imageData = EmptyBytes,
                    !.renderedImage = EmptyString]
    ELSE LET m1 == [mm EXCEPT !.loading = FALSE,
                              !.errorMsg = "",
                              !.imageData = msg.ImageData]
         IN  [m1 EXCEPT !.renderedImage = renderImage(m1, h)]

\* Update, case MapPreviewMsg, as a function of the struct.
OnMapPreviewMsg(mm, msg, h) ==
    IF msg.Error # NilError
    THEN [mm EXCEPT !.loading = FALSE,
                    !.errorMsg = msg.Error,
                    !.imageData = EmptyBytes,
                    !.renderedImage = EmptyString]
    ELSE LET m1 == [mm EXCEPT !.loading = FALSE,
                              !.errorMsg = "",
                              !.imageData = msg.ImageData]
         IN  [m1 EXCEPT !.renderedImage = renderImage(m1, h)]

\* Mutant of UpdateMapPreviewMsg: the closure stays and can return again.
UpdateMapPreviewMsgAgain(req, msg, h) ==
    /\ BagIn(req, sent)
    /\ Complete(req)
    /\ done < MaxInputs
    /\ done' = done + 1
    /\ frameReq' = IF msg.Error = NilError THEN req ELSE NoReq
    /\ UNCHANGED << closeCalls, nMeta >>
    /\ Handles(sent, OnMapPreviewMsg(m, msg, h), << >>, TRUE, FALSE)

\* The closure that sent request req returns msg and Update handles it.
UpdateMapPreviewMsg(req, msg, h) ==
    /\ BagIn(req, sent)
    /\ Complete(req)
    /\ done' = done + 1
    /\ frameReq' = IF msg.Error = NilError THEN req ELSE NoReq
    /\ UNCHANGED << closeCalls, nMeta >>
    /\ Handles(sent (-) SetToBag({req}), OnMapPreviewMsg(m, msg, h), << >>, TRUE, FALSE)

UpdateKey(k) ==
    \/ KeyClose(k)
    \/ KeyZoomIn(k)
    \/ KeyZoomOut(k)
    \/ KeyPanUp(k)
    \/ KeyPanDown(k)
    \/ KeyPanLeft(k)
    \/ KeyPanRight(k)
    \/ KeyRefresh(k)
    \/ KeyNextStyle(k)
    \/ KeyPrevStyle(k)
    \/ KeyOther(k)

Next ==
    \/ \E k \in Keys : UpdateKey(k)
    \/ SpinnerTick
    \/ \E fn \in BOOLEAN : CallSetOnClose(fn)
    \/ \E b \in MetaBounds, s \in MetaStyles : UpdateMetadata(b, s)
    \/ FetchStart
    \/ FetchStyle
    \/ FetchRead
    \/ \E k \in Keys : FetchPanicsPrevStyle(k)
    \/ \E b \in MetaBounds, s \in MetaStyles : FetchPanicsSetStyles(b, s)
    \/ \E req \in BagToSet(sent), msg \in Results, h \in OutcomesFor(m.protocol) :
           UpdateMapPreviewMsg(req, msg, h)

\* The component constructed in the plain terminal.
InitPlain == Init /\ ~isKittyTerminal(environ)

\* Spec: every message and every closure step, in the plain terminal.
Spec == InitPlain /\ [][Next]_vars

\* The runtime starts the goroutine of every command Update returns, and the
\* closure returns: the HTTP client gives up after 30 seconds.
Deliver ==
    \E req \in BagToSet(sent), msg \in Results, h \in OutcomesFor(m.protocol) :
        UpdateMapPreviewMsg(req, msg, h)

\* SpecFetch: the fetch pipeline under the refresh key, the previous-style
\* key, the spinner tick and the metadata message.
NextFetch ==
    \/ \E k \in {"r", "S"} : KeyRefresh(k)
    \/ \E k \in {"r", "S"} : KeyPrevStyle(k)
    \/ SpinnerTick
    \/ \E b \in MetaBounds, s \in MetaStyles : UpdateMetadata(b, s)
    \/ FetchStart
    \/ FetchStyle
    \/ FetchRead
    \/ \E k \in {"r", "S"} : FetchPanicsPrevStyle(k)
    \/ \E b \in MetaBounds, s \in MetaStyles : FetchPanicsSetStyles(b, s)
    \/ Deliver

SpecFetch == Init /\ [][NextFetch]_vars

\* A result waits: a closure has built its request, and the exchange that
\* follows ends within the client's 30 s Timeout.
CanDeliver == ~Crashed /\ \E req \in BagToSet(sent) : Complete(req)

\* SpecLive: SpecFetch in the plain terminal, with the scheduling the
\* runtime gives: the goroutine of every command Update returns is started,
\* a running closure goes on to its next load, and a closure that has built
\* its request returns and Update handles its message.  The last is the weak
\* fairness of Deliver, written out: Deliver is enabled exactly when a result
\* waits, and its steps are the steps that add to done.
SpecLive ==
    /\ InitPlain
    /\ [][NextFetch]_vars
    /\ WF_vars(FetchStart)
    /\ WF_vars(FetchStyle)
    /\ WF_vars(FetchRead)
    /\ ([]<>(~CanDeliver) \/ []<><<done' = done + 1>>_vars)

\* SpecClose: the close key, with and without a callback, the refresh key
\* and a key without a binding, and the fetch pipeline.
NextClose ==
    \/ \E k \in {"esc", "r", "x"} : KeyClose(k)
    \/ \E k \in {"esc", "r", "x"} : KeyRefresh(k)
    \/ \E k \in {"esc", "r", "x"} : KeyOther(k)
    \/ \E fn \in BOOLEAN : CallSetOnClose(fn)
    \/ FetchStart
    \/ FetchStyle
    \/ FetchRead
    \/ Deliver

SpecClose == Init /\ [][NextClose]_vars

\* SpecCommands: the nine commands of the key map and the fetch pipeline, on
\* a component in a plain terminal whose Update has handled the metadata
\* message with the extent [90, 0, 180, 90] and two styles and then the result
\* of the fetch that message issued, whatever the result was.
InitCommands ==
    /\ environ = [termKitty |-> FALSE, kittyId |-> FALSE,
                  img2sixel |-> FALSE, chafa |-> FALSE]
    /\ \E msg \in Results, h \in OutcomesFor(detectImageProtocol(environ)) :
           LET m0 == [SetStyles(SetBounds(NewMapPreview(environ),
                                          ExtentB[1], ExtentB[2], ExtentB[3], ExtentB[4]),
                                << "line", "point" >>) EXCEPT !.loading = TRUE]
           IN  /\ m = OnMapPreviewMsg(m0, msg, h)
               /\ frameReq = IF msg.Error = NilError THEN Request(m0) ELSE NoReq
    /\ pending = 0
    /\ sent = EmptyBag
    /\ done = 1
    /\ closeCalls = 0
    /\ nMeta = 1
    /\ ops = 0
    /\ lastOp = "none"

NextCommands ==
    \/ \E k \in Keys : KeyZoomIn(k)
    \/ \E k \in Keys : KeyZoomOut(k)
    \/ \E k \in Keys : KeyPanUp(k)
    \/ \E k \in Keys : KeyPanDown(k)
    \/ \E k \in Keys : KeyPanLeft(k)
    \/ \E k \in Keys : KeyPanRight(k)
    \/ \E k \in Keys : KeyRefresh(k)
    \/ \E k \in Keys : KeyNextStyle(k)
    \/ \E k \in Keys : KeyPrevStyle(k)
    \/ FetchStart
    \/ FetchStyle
    \/ FetchRead
    \/ \E k \in Keys : FetchPanicsPrevStyle(k)
    \/ Deliver

SpecCommands == InitCommands /\ [][NextCommands]_vars

\* ------------------------------------------------- the viewport on its own
\* SpecViewport applies the viewport methods to the struct, from the
\* constructed state and from the states the pan and zoom keys lead to: any
\* zoom level, the centre on a pan grid point, the bbox recomputed.
InitCentersX == {Rat(0 - Deg180), Rat(0), Rat(Deg90 + Deg45)}
InitCentersY == {Rat(0 - Deg90), Rat(0), Rat(Deg45)}
PlainEnv == [termKitty |-> FALSE, kittyId |-> FALSE, img2sixel |-> FALSE, chafa |-> FALSE]

InitViewport ==
    /\ environ = PlainEnv
    /\ \/ m = NewMapPreview(PlainEnv)
       \/ \E z \in MinZoom..MaxZoom, cx \in InitCentersX, cy \in InitCentersY :
              m = updateBBox([NewMapPreview(PlainEnv) EXCEPT
                                 !.zoomLevel = z, !.centerX = cx, !.centerY = cy])
    /\ pending = 0
    /\ sent = EmptyBag
    /\ done = 0
    /\ closeCalls = 0
    /\ nMeta = 0
    /\ frameReq = NoReq
    /\ ops = 0
    /\ lastOp = "none"

Apply(name, m2) ==
    /\ ops < MaxOps
    /\ m' = m2
    /\ ops' = ops + 1
    /\ lastOp' = name
    /\ UNCHANGED << pending, sent, done, closeCalls, nMeta, frameReq, environ >>

DoZoomIn == Apply("zoomIn", zoomIn(m))
DoZoomOut == Apply("zoomOut", zoomOut(m))
DoPanUp == Apply("panUp", panUp(m))
DoPanDown == Apply("panDown", panDown(m))
DoPanLeft == Apply("panLeft", panLeft(m))
DoPanRight == Apply("panRight", panRight(m))
DoSetBounds(b) == Apply("SetBounds", SetBounds(m, b[1], b[2], b[3], b[4]))

NextViewport ==
    \/ DoZoomIn
    \/ DoZoomOut
    \/ DoPanUp
    \/ DoPanDown
    \/ DoPanLeft
    \/ DoPanRight
    \/ \E b \in {ExtentA, ExtentB, ExtentC} : DoSetBounds(b)

SpecViewport == InitViewport /\ [][NextViewport]_vars

\* --------------------------------------------- the style list on its own
\* SpecStyles applies SetStyles, nextStyle and prevStyle to the constructed
\* struct.
StyleNames == {"line", "point", "polygon"}
StyleLists ==
    {<< >>} \cup {<< a >> : a \in StyleNames}
            \cup {<< a, b >> : a \in StyleNames, b \in StyleNames}

InitStyles ==
    /\ environ = PlainEnv
    /\ m = NewMapPreview(environ)
    /\ pending = 0
    /\ sent = EmptyBag
    /\ done = 0
    /\ closeCalls = 0
    /\ nMeta = 0
    /\ frameReq = NoReq
    /\ ops = 0
    /\ lastOp = "none"

ApplyStyle(name, m2) ==
    /\ ops < MaxStyleOps
    /\ m' = m2
    /\ ops' = ops + 1
    /\ lastOp' = name
    /\ UNCHANGED << pending, sent, done, closeCalls, nMeta, frameReq, environ >>

DoSetStyles(s) == ApplyStyle("SetStyles", SetStyles(m, s))
DoNextStyle == ApplyStyle("nextStyle", nextStyle(m))
DoPrevStyle == ApplyStyle("prevStyle", prevStyle(m))

NextStyles ==
    \/ \E s \in StyleLists : DoSetStyles(s)
    \/ DoNextStyle
    \/ DoPrevStyle

SpecStyles == InitStyles /\ [][NextStyles]_vars

\* ------------------------------------------------- rendering on its own
\* SpecRender constructs the struct in every environment and lets Update
\* handle fetch results: every kind of body, and an error.
\* string(body): garbage bytes are the text of a service exception report.
BodyText(b) ==
    IF b.kind = "empty" THEN ""
    ELSE IF b.kind = "garbage" THEN "ServiceException"
    ELSE "PNG"

\* What the HTTP exchange of one closure does: http.NewRequest fails; or
\* client.Do fails (no connection, or the 30 s of the client's Timeout are
\* over); or a response arrives with a status and a body, the read of which
\* gives the bytes read and an error or none.
StatusCodes == {200, 204, 404, 500}
HttpOutcomes ==
    {[requestErr |-> "parse: invalid URL", doErr |-> NilError, status |-> 0,
      body |-> EmptyBytes, readErr |-> NilError]}
        \cup {[requestErr |-> NilError, doErr |-> e, status |-> 0,
               body |-> EmptyBytes, readErr |-> NilError] :
                 e \in {"connection refused", "Client.Timeout exceeded"}}
        \cup {[requestErr |-> NilError, doErr |-> NilError, status |-> s,
               body |-> b, readErr |-> e] :
                 s \in StatusCodes \ {200}, b \in {EmptyBytes, GarbageBytes},
                 e \in {NilError, "unexpected EOF"}}
        \cup {[requestErr |-> NilError, doErr |-> NilError, status |-> 200,
               body |-> b, readErr |-> e] :
                 b \in Bodies, e \in {NilError, "unexpected EOF"}}

\* Mutant of fetchMapResult: the status of the response is not looked at.
fetchMapResultAnyStatus(o) ==
    IF o.requestErr # NilError
    THEN [ImageData |-> EmptyBytes, Error |-> o.requestErr]
    ELSE IF o.doErr # NilError
    THEN [ImageData |-> EmptyBytes, Error |-> o.doErr]
    ELSE IF o.readErr # NilError
    THEN [ImageData |-> EmptyBytes, Error |-> o.readErr]
    ELSE [ImageData |-> o.body, Error |-> NilError]

\* The message the closure of fetchMap returns after the exchange o.
fetchMapResult(o) ==
    IF o.requestErr # NilError
    THEN [ImageData |-> EmptyBytes, Error |-> o.requestErr]
    ELSE IF o.doErr # NilError
    THEN [ImageData |-> EmptyBytes, Error |-> o.doErr]
    ELSE IF o.status # 200
    THEN [ImageData |-> EmptyBytes,
          Error |-> "WMS error (" \o ToString(o.status) \o "): "
                        \o BodyText(o.body)]
    ELSE IF o.readErr # NilError
    THEN [ImageData |-> EmptyBytes, Error |-> o.readErr]
    ELSE [ImageData |-> o.body, Error |-> NilError]

fetchTable == [o \in HttpOutcomes |-> fetchMapResult(o)]
RenderResults == {fetchTable[o] : o \in HttpOutcomes}

InitRender ==
    /\ environ \in Envs
    /\ m = NewMapPreview(environ)
    /\ pending = 0
    /\ sent = EmptyBag
    /\ done = 0
    /\ closeCalls = 0
    /\ nMeta = 0
    /\ frameReq = NoReq
    /\ ops = 0
    /\ lastOp = "none"

DoRender(msg, h) ==
    /\ ops < MaxRenders
    /\ m' = OnMapPreviewMsg(m, msg, h)
    /\ ops' = ops + 1
    /\ lastOp' = "MapPreviewMsg"
    /\ UNCHANGED << pending, sent, done, closeCalls, nMeta, frameReq, environ >>

\* The closure returns after the exchange o and Update renders the result.
DoFetch(o, h) == DoRender(fetchTable[o], h)

\* The parent resizes the component.
DoSetSize(width, height) ==
    /\ ops < MaxRenders
    /\ m' = SetSize(m, width, height)
    /\ ops' = ops + 1
    /\ lastOp' = "SetSize"
    /\ UNCHANGED << pending, sent, done, closeCalls, nMeta, frameReq, environ >>

NextRender ==
    \/ \E o \in HttpOutcomes, h \in OutcomesFor(m.protocol) : DoFetch(o, h)
    \/ \E sz \in Sizes : DoSetSize(sz[1], sz[2])

SpecRender == InitRender /\ [][NextRender]_vars

\* ================================================================ claims
\* Update handles the message of the closure that sent request req.
Delivered(req) ==
    /\ BagIn(req, sent)
    /\ sent' = sent (-) SetToBag({req})
    /\ done' = done + 1

\* The request was made for another bbox than the viewport's on arrival.
Stale(req) == req.bbox # m.bbox

ViewportOf(mm) == << mm.centerX, mm.centerY, mm.zoomLevel, mm.bbox >>
StylesOf(mm) == << mm.styles, mm.currentStyle >>

\* C1: once the displayed frame comes from a fetch made for the current
\* bbox, the arrival of a result of a fetch made for another bbox replaces
\* neither the frame nor the request it came from.
C1_StaleResultKeepsFrame ==
    [][\A req \in BagToSet(sent) :
           (/\ Delivered(req)
            /\ Stale(req)
            /\ m.renderedImage # EmptyString
            /\ frameReq.bbox = m.bbox)
               => (m'.renderedImage = m.renderedImage /\ frameReq' = frameReq)]_vars

\* C2: the arrival of a stale result leaves the loading flag, the error
\* message, the image bytes and the frame as they were.
C2_StaleResultIgnored ==
    [][\A req \in BagToSet(sent) :
           (Delivered(req) /\ Stale(req))
               => (/\ m'.loading = m.loading
                   /\ m'.errorMsg = m.errorMsg
                   /\ m'.imageData = m.imageData
                   /\ m'.renderedImage = m.renderedImage)]_vars

\* C3: a mutating key handled while the component is visible applies its
\* method to the viewport and the style selection, empties the frame, sets
\* loading and queues exactly one fetch command, all in that Update step.
MutatingEffect(m2) ==
    /\ ViewportOf(m') = ViewportOf(m2)
    /\ StylesOf(m') = StylesOf(m2)
    /\ m'.renderedImage = EmptyString
    /\ m'.loading
    /\ Issued' = Issued + 1
    /\ done' = done

C3_MutatingInput ==
    [][m.visible =>
         \A k \in Keys :
            /\ KeyZoomIn(k) => MutatingEffect(zoomIn(m))
            /\ KeyZoomOut(k) => MutatingEffect(zoomOut(m))
            /\ KeyPanUp(k) => MutatingEffect(panUp(m))
            /\ KeyPanDown(k) => MutatingEffect(panDown(m))
            /\ KeyPanLeft(k) => MutatingEffect(panLeft(m))
            /\ KeyPanRight(k) => MutatingEffect(panRight(m))
            /\ KeyRefresh(k) => MutatingEffect(m)
            /\ KeyNextStyle(k) => MutatingEffect(nextStyle(m))
            /\ KeyPrevStyle(k) => MutatingEffect(prevStyle(m))]_vars

\* A frame had been rendered, and a zoom key has emptied it and queued a fetch.
C3_Witness ==
    /\ m.visible
    /\ m.imageData.kind = "png"
    /\ m.renderedImage = EmptyString
    /\ m.loading
    /\ m.zoomLevel # InitZoom
    /\ pending = 1

\* C4: when the result of a fetch made for the current bbox arrives, a
\* success sets the image bytes, renders the frame from them, clears the
\* error message; an error sets the error message and leaves neither frame
\* nor image bytes; either way loading is off.
C4_MatchingResult ==
    [][\A req \in BagToSet(sent), msg \in Results, h \in OutcomesFor(m.protocol) :
           (UpdateMapPreviewMsg(req, msg, h) /\ ~Stale(req))
               => /\ ~m'.loading
                  /\ IF msg.Error = NilError
                     THEN /\ m'.imageData = msg.ImageData
                          /\ m'.renderedImage =
                                 renderImage([m EXCEPT !.imageData = msg.ImageData], h)
                          /\ m'.errorMsg = ""
                     ELSE /\ m'.errorMsg = msg.Error
                          /\ m'.errorMsg # ""
                          /\ m'.imageData = EmptyBytes
                          /\ m'.renderedImage = EmptyString]_vars

\* C5: no fetch is issued before the metadata message has been handled.
C5_NoFetchBeforeMetadata == Issued > 0 => nMeta > 0

\* C6: the bbox is the one updateBBox computes from the centre and the zoom.
C6_BBoxIsRecomputed == m.bbox = updateBBox(m).bbox

\* C7: the zoom level stays in [0, 20].
C7_ZoomInRange == MinZoom <= m.zoomLevel /\ m.zoomLevel <= MaxZoom

\* zoomOut has been called twice at or next to zoom 0, and the zoom is 0.
C7_Witness == m.zoomLevel = MinZoom /\ lastOp = "zoomOut" /\ ops = 2

\* C8: zoomIn adds 0.5 to the zoom below 20 and zoomOut takes 0.5 off above
\* 0; at zoom 20 zoomIn, and at zoom 0 zoomOut, change nothing of the struct.
C8_ZoomStep ==
    [][/\ DoZoomIn => IF m.zoomLevel < MaxZoom
                      THEN m'.zoomLevel = m.zoomLevel + 1
                      ELSE m' = m
       /\ DoZoomOut => IF m.zoomLevel > MinZoom
                       THEN m'.zoomLevel = m.zoomLevel - 1
                       ELSE m' = m]_vars

\* zoomIn took the zoom from 19.5 to 20 and a second zoomIn left it there.
C8_Witness == m.zoomLevel = MaxZoom /\ lastOp = "zoomIn" /\ ops = 2

\* C9: the bbox updateBBox computes is 360/2^z wide and 180/2^z high and
\* lies inside [-180,180] x [-90,90].
InsideWorld(b) ==
    /\ ~Lt(b[1], Rat(0 - Deg180))
    /\ ~Gt(b[3], Rat(Deg180))
    /\ ~Lt(b[2], Rat(0 - Deg90))
    /\ ~Gt(b[4], Rat(Deg90))

C9_BBoxSize ==
    LET b == updateBBox(m).bbox
    IN  /\ Minus(b[3], b[1]) = Scaled(Deg360, m.zoomLevel)
        /\ Minus(b[4], b[2]) = Scaled(Deg180, m.zoomLevel)
        /\ InsideWorld(b)

\* The window centre +- size/2 that updateBBox starts from, before the clamp.
RawBBox(mm) ==
    LET width == Scaled(Deg360, mm.zoomLevel)
        height == Scaled(Deg180, mm.zoomLevel)
    IN  << Minus(mm.centerX, Half(width)), Minus(mm.centerY, Half(height)),
           Plus(mm.centerX, Half(width)), Plus(mm.centerY, Half(height)) >>

\* A pan right pushed the window over the east edge and a pan up over the
\* north edge: both axes were shifted back.
C9_Witness ==
    /\ lastOp \in {"panUp", "panRight"}
    /\ ops = 2
    /\ m.bbox = updateBBox(m).bbox
    /\ Gt(RawBBox(m)[3], Rat(Deg180))
    /\ Gt(RawBBox(m)[4], Rat(Deg90))
    /\ m.zoomLevel > MinZoom

\* C10: a pan moves the centre by an eighth of the height (up, down) or of
\* the width (left, right) of the bbox as it was, recomputes the bbox, and
\* the midpoint of an unclamped bbox is the new centre.
PanEffect(cx, cy) ==
    /\ m'.centerX = cx
    /\ m'.centerY = cy
    /\ m'.zoomLevel = m.zoomLevel
    /\ m'.bbox = updateBBox(m').bbox
    /\ m'.bbox = RawBBox(m')
           => /\ Half(Plus(m'.bbox[1], m'.bbox[3])) = m'.centerX
              /\ Half(Plus(m'.bbox[2], m'.bbox[4])) = m'.centerY

BBoxWidth(mm) == Minus(mm.bbox[3], mm.bbox[1])
BBoxHeight(mm) == Minus(mm.bbox[4], mm.bbox[2])

C10_PanStep ==
    [][/\ DoPanUp => PanEffect(m.centerX, Plus(m.centerY, Eighth(BBoxHeight(m))))
       /\ DoPanDown => PanEffect(m.centerX, Minus(m.centerY, Eighth(BBoxHeight(m))))
       /\ DoPanLeft => PanEffect(Minus(m.centerX, Eighth(BBoxWidth(m))), m.centerY)
       /\ DoPanRight => PanEffect(Plus(m.centerX, Eighth(BBoxWidth(m))), m.centerY)]_vars

\* A pan right after SetBounds: the step was an eighth of the extent's
\* width, not of the zoom's, and the new bbox is unclamped around the centre.
C10_Witness ==
    /\ lastOp = "panRight"
    /\ ops = 2
    /\ m.zoomLevel = InitZoom
    /\ m.centerX = Plus(Half(Plus(ExtentA[1], ExtentA[3])),
                        Eighth(Minus(ExtentA[3], ExtentA[1])))
    /\ m.bbox = RawBBox(m)

\* C11: a pan left followed by a pan right, and a pan up followed by a pan
\* down, bring the centre back, unless a bbox on the way lies on or over a
\* world edge.
StrictlyInside(b) ==
    /\ Gt(b[1], Rat(0 - Deg180))
    /\ Lt(b[3], Rat(Deg180))
    /\ Gt(b[2], Rat(0 - Deg90))
    /\ Lt(b[4], Rat(Deg90))

NoEdge(mm) == StrictlyInside(mm.bbox) /\ StrictlyInside(RawBBox(mm))

C11_PanRoundTrip ==
    /\ LET m1 == panLeft(m)
           m2 == panRight(m1)
       IN  (NoEdge(m) /\ NoEdge(m1) /\ NoEdge(m2)) => m2.centerX = m.centerX
    /\ LET m1 == panUp(m)
           m2 == panDown(m1)
       IN  (NoEdge(m) /\ NoEdge(m1) /\ NoEdge(m2)) => m2.centerY = m.centerY

\* C12: nextStyle and prevStyle step the index cyclically through a
\* non-empty list and change nothing on an empty one; with a non-empty list
\* the index is inside it; nextStyle then prevStyle restores the index.
StyleIndexInRange(mm) ==
    Len(mm.styles) > 0 => (0 <= mm.currentStyle /\ mm.currentStyle < Len(mm.styles))

C12_StyleCycle ==
    /\ [](StyleIndexInRange(m)
            /\ (Len(m.styles) > 0
                   => prevStyle(nextStyle(m)).currentStyle = m.currentStyle))
    /\ [][/\ DoNextStyle =>
               IF Len(m.styles) = 0 THEN m' = m
               ELSE /\ m'.styles = m.styles
                    /\ m'.currentStyle = (m.currentStyle + 1) % Len(m.styles)
          /\ DoPrevStyle =>
               IF Len(m.styles) = 0 THEN m' = m
               ELSE /\ m'.styles = m.styles
                    /\ m'.currentStyle =
                           (m.currentStyle + Len(m.styles) - 1) % Len(m.styles)]_vars

\* nextStyle stepped from index 0 to the last index 1 and again, back to 0.
C12_Witness ==
    /\ lastOp = "nextStyle"
    /\ ops = 3
    /\ Len(m.styles) = 2
    /\ m.currentStyle = 0

\* C13: a close key makes the component invisible, so that View returns the
\* empty string, runs the close callback once when one is set, and queues
\* no fetch.
C13_Close ==
    [][\A k \in Keys :
           KeyClose(k)
               => /\ ~m'.visible
                  /\ View(m') = EmptyString
                  /\ closeCalls' = closeCalls + (IF m.onClose THEN 1 ELSE 0)
                  /\ Issued' = Issued
                  /\ done' = done]_vars

\* Closed from Error: a fetch failed, then the close key ran the callback.
C13_Witness ==
    /\ ~m.visible
    /\ m.errorMsg # ""
    /\ ~m.loading
    /\ closeCalls = 1
    /\ done = 1

\* C14: once the component is invisible, no message Update handles changes
\* the viewport, the style selection, the frame, the loading flag or the
\* error message, or queues a fetch, and the component stays invisible.
UpdateStep ==
    \/ \E k \in Keys : UpdateKey(k)
    \/ SpinnerTick
    \/ \E b \in MetaBounds, s \in MetaStyles : UpdateMetadata(b, s)
    \/ \E req \in BagToSet(sent), msg \in Results, h \in OutcomesFor(m.protocol) :
           UpdateMapPreviewMsg(req, msg, h)

C14_ClosedIsTerminal ==
    [][(~m.visible /\ UpdateStep)
           => /\ ~m'.visible
              /\ ViewportOf(m') = ViewportOf(m)
              /\ StylesOf(m') = StylesOf(m)
              /\ m'.renderedImage = m.renderedImage
              /\ m'.imageData = m.imageData
              /\ m'.loading = m.loading
              /\ m'.errorMsg = m.errorMsg
              /\ pending' = pending]_vars

\* C15: the handler of a key without a binding stores to no field of the
\* struct and queues no fetch: the struct is after the step what it was
\* before, but for m.loading when the closure of a command returned earlier
\* has started meanwhile and stored true to it.
C15_UnboundKey ==
    [][\A k \in Keys :
           (k \notin Bound /\ UpdateKey(k))
               => /\ [m' EXCEPT !.loading = m.loading] = m
                  /\ m'.loading # m.loading => (m'.loading /\ pending' < pending)
                  /\ Issued' = Issued
                  /\ done' = done
                  /\ closeCalls' = closeCalls]_vars

\* A frame is on display and the key "x", which has no binding, can be
\* pressed.
C15_Witness ==
    /\ "x" \in Keys \ Bound
    /\ ENABLED UpdateKey("x")
    /\ m.visible
    /\ ~m.loading
    /\ m.renderedImage # EmptyString

\* C16: the protocol is the first match of: kitty terminal (TERM contains
\* "kitty" or KITTY_WINDOW_ID is set), img2sixel on the path, chafa on the
\* path, ASCII.
C16_DetectionOrder ==
    m.protocol =
        IF environ.termKitty \/ environ.kittyId THEN ProtocolKitty
        ELSE IF environ.img2sixel THEN ProtocolSixel
        ELSE IF environ.chafa THEN ProtocolChafa
        ELSE ProtocolASCII

\* Both helpers are on the path of a terminal that is not kitty: img2sixel
\* wins, and a result has been rendered under it.
C16_Witness ==
    /\ ~environ.termKitty /\ ~environ.kittyId
    /\ environ.img2sixel /\ environ.chafa
    /\ m.protocol = ProtocolSixel
    /\ m.renderedImage # EmptyString

\* C17: a render under kitty runs chafa in kitty mode, after a failure once
\* more in symbols mode, and after another failure returns the ASCII
\* rendering; under sixel and chafa it runs the helper once and after a
\* failure returns the ASCII rendering; under ASCII it runs no helper.  No
\* render runs more than two helpers and every render returns a string.
HelperText(cmd) == Text("<" \o cmd \o ">")

C17_BoundedFallback ==
    m.imageData.kind # "empty" =>
        \A h \in HelperOutcomes :
            LET calls == helperCalls(m, h)
                out == renderImage(m, h)
                ascii == renderASCII(m)
            IN  /\ Len(calls) <= 2
                /\ out # EmptyString
                /\ IF m.protocol = ProtocolKitty
                   THEN /\ calls \in {<< >>, << KittyCmd >>, << KittyCmd, SymbolsCmd >>}
                        /\ (h.tmp /\ h.first) =>
                               (calls = << KittyCmd >> /\ out = HelperText(KittyCmd))
                        /\ (h.tmp /\ ~h.first) => calls = << KittyCmd, SymbolsCmd >>
                        /\ (h.tmp /\ ~h.first /\ h.second) => out = HelperText(SymbolsCmd)
                        /\ (h.tmp /\ ~h.first /\ ~h.second) => out = ascii
                        /\ ~h.tmp => (calls = << >> /\ out = ascii)
                   ELSE IF m.protocol = ProtocolSixel
                   THEN /\ calls = << SixelCmd >>
                        /\ out = IF h.first THEN HelperText(SixelCmd) ELSE ascii
                   ELSE IF m.protocol = ProtocolChafa
                   THEN /\ Len(calls) <= 1
                        /\ h.tmp => calls = << ChafaCmd >>
                        /\ out = IF h.tmp /\ h.first THEN HelperText(ChafaCmd) ELSE ascii
                   ELSE calls = << >> /\ out = ascii

\* Under kitty both chafa attempts failed on a PNG and the frame is the
\* ASCII rendering.
C17_Witness ==
    /\ m.protocol = ProtocolKitty
    /\ m.imageData.kind = "png"
    /\ helperCalls(m, Outcome(TRUE, FALSE, FALSE)) = << KittyCmd, SymbolsCmd >>
    /\ m.renderedImage = renderASCII(m)
    /\ lastOp = "MapPreviewMsg"

\* C18: renderASCII returns a string for any bytes: the placeholder for
\* bytes that do not decode, and for a PNG a grid of glyphs of the ramp,
\* every pixel's index being inside the ramp.
C18_AsciiNeverFails ==
    LET s == renderASCII(m)
    IN  /\ s # EmptyString
        /\ IF m.imageData.kind # "png"
           THEN s = Text("[Image decode error]")
           ELSE /\ \A p \in DOMAIN m.imageData.img.pix :
                      GlyphIndex(m.imageData.img.pix[p]) \in 0..(Len(Chars) - 1)
                /\ \A y \in DOMAIN s : \A x \in DOMAIN s[y] :
                      \E i \in DOMAIN Chars : s[y][x] = Chars[i]

\* Under ASCII, bytes that are no PNG were delivered and the frame is the
\* placeholder.
C18_Witness ==
    /\ m.protocol = ProtocolASCII
    /\ m.imageData = GarbageBytes
    /\ m.renderedImage = Text("[Image decode error]")
    /\ ~m.loading

\* C19: in an ASCII frame the cell of a fully transparent pixel is blank,
\* the cell of an opaque black pixel is the densest glyph of the ramp, and
\* of two opaque pixels the darker one (the lower mean of r, g, b) has the
\* glyph that is as dense or denser.
Mean(c) == (c[1] + c[2] + c[3]) \div 3
Density(glyph) == CHOOSE i \in DOMAIN Chars : Chars[i] = glyph

C19_AsciiRamp ==
    (m.imageData.kind = "png" /\ m.renderedImage = renderASCII(m)) =>
        LET img == m.imageData.img
            s == m.renderedImage
            SrcOf(x, y) == img.pix[<< Sample(x - 1, img.dx, Len(s[1])),
                                      Sample(y - 1, img.dy, Len(s)) >>]
            Cells == {<< x, y >> : x \in DOMAIN s[1], y \in DOMAIN s}
        IN  /\ \A c \in Cells :
                  /\ SrcOf(c[1], c[2]) = Transparent => s[c[2]][c[1]] = " "
                  /\ SrcOf(c[1], c[2]) = Opaque(0) => s[c[2]][c[1]] = Chars[Len(Chars)]
            /\ \A c \in Cells, d \in Cells :
                  (/\ SrcOf(c[1], c[2])[4] = 65535
                   /\ SrcOf(d[1], d[2])[4] = 65535
                   /\ Mean(SrcOf(c[1], c[2])) < Mean(SrcOf(d[1], d[2])))
                      => Density(s[c[2]][c[1]]) >= Density(s[d[2]][d[1]])

\* C20: the closure of every fetch command returns one message to Update,
\* not none and not two, and the number of fetch commands grows only when
\* Update handles a mutating key or the metadata message: never when it
\* handles a result, an error included.
MutatingKey(k) ==
    \/ KeyZoomIn(k) \/ KeyZoomOut(k)
    \/ KeyPanUp(k) \/ KeyPanDown(k) \/ KeyPanLeft(k) \/ KeyPanRight(k)
    \/ KeyRefresh(k) \/ KeyNextStyle(k) \/ KeyPrevStyle(k)

C20_OneResultNoRetry ==
    /\ [][/\ Issued' >= Issued
          /\ done' \in {done, done + 1}
          /\ Issued' > Issued
                => (/\ Issued' = Issued + 1
                    /\ \/ \E k \in Keys : MutatingKey(k) \/ FetchPanicsPrevStyle(k)
                       \/ \E b \in MetaBounds, s \in MetaStyles :
                              UpdateMetadata(b, s) \/ FetchPanicsSetStyles(b, s))
          /\ \A req \in BagToSet(sent), msg \in Results, h \in OutcomesFor(m.protocol) :
                UpdateMapPreviewMsg(req, msg, h)
                    => (/\ Issued' = Issued
                        /\ done' = done + 1)]_vars
    /\ \A n \in 1..MaxInputs : (Issued >= n) ~> (done >= n)

\* C21: the closure of fetchMap returns an error, and no image bytes, when
\* the request cannot be built, when the transport fails or times out, when
\* the status of the response is not 200 (the error then carries the status
\* and the text of the body), and when the body of a 200 response cannot be
\* read to its end; only a 200 response read completely gives its bytes.
\* Update then shows the error and holds no image, or holds the bytes.
WMSErrorText ==
    [s \in StatusCodes \ {200}, b \in {EmptyBytes, GarbageBytes} |->
        IF s = 204
        THEN (IF b = EmptyBytes THEN "WMS error (204): "
              ELSE "WMS error (204): ServiceException")
        ELSE IF s = 404
        THEN (IF b = EmptyBytes THEN "WMS error (404): "
              ELSE "WMS error (404): ServiceException")
        ELSE (IF b = EmptyBytes THEN "WMS error (500): "
              ELSE "WMS error (500): ServiceException")]

Failed(o) ==
    \/ o.requestErr # NilError
    \/ o.doErr # NilError
    \/ o.status # 200
    \/ o.readErr # NilError

C21_FetchErrors ==
    [][\A o \in HttpOutcomes, h \in OutcomesFor(m.protocol) :
          DoFetch(o, h)
              => LET msg == fetchTable[o]
                 IN  IF Failed(o)
                     THEN /\ msg.Error # NilError
                          /\ msg.ImageData = EmptyBytes
                          /\ (o.requestErr = NilError /\ o.doErr = NilError
                                  /\ o.status # 200)
                                => msg.Error = WMSErrorText[o.status, o.body]
                          /\ m'.errorMsg = msg.Error
                          /\ m'.imageData = EmptyBytes
                          /\ m'.renderedImage = EmptyString
                     ELSE /\ msg.Error = NilError
                          /\ msg.ImageData = o.body
                          /\ m'.errorMsg = ""
                          /\ m'.imageData = o.body]_vars

\* A 404 response with a service exception report was handled.
C21_Witness ==
    /\ lastOp = "MapPreviewMsg"
    /\ m.errorMsg = "WMS error (404): ServiceException"
    /\ m.imageData = EmptyBytes
    /\ ~m.loading

\* C22: a mutating key, refresh in particular, handled while the component
\* shows an error makes it Loading and no longer Error: the error message
\* is gone, the view has the loading line and not the error line, and one
\* more fetch command is issued.
LoadingLine == << "spinner", " Loading map..." >>
ErrorLine(e) == << "Error: ", e >>
Shows(mm, line) == \E i \in DOMAIN View(mm) : View(mm)[i] = line

C22_ErrorRecovers ==
    [][\A k \in Keys :
          (m.visible /\ ~m.loading /\ m.errorMsg # "" /\ MutatingKey(k))
              => (/\ m'.loading
                  /\ Issued' = Issued + 1
                  /\ m'.errorMsg = ""
                  /\ Shows(m', LoadingLine)
                  /\ ~Shows(m', ErrorLine(m.errorMsg)))]_vars

\* C23: the request of a fetch is a snapshot taken when the fetch is issued:
\* the bbox, style and pixel size a closure sends are those the component
\* held when the Update step that returned its command returned, whatever
\* Update handles before the closure starts.  A closure may start right
\* after any step, so this holds of every behaviour exactly if no step
\* taken while a command waits to start changes the request the component
\* would send.
C23_RequestIsSnapshot ==
    [][(pending > 0 /\ pending' >= pending) => Request(m') = Request(m)]_vars

\* C24: the closure of a fetch command, which runs off the loop, writes no
\* field of the component; it only returns its message, and every change of
\* the component happens in Update.
C24_ClosureWritesNothing == [][FetchStart => m' = m]_vars

\* C25 as stated: Loading is never permanent.  In a behaviour in which
\* every issued fetch delivers its result (the inputs of a behaviour end,
\* so at last, and for good, as many results have been handled as commands
\* were issued), a component that is open and loading is at last, and for
\* good, not loading.
C25_LoadingNeverPermanent ==
    <>[](done = Issued) => <>[](~(m.visible /\ m.loading))

\* C25, amended: Loading is never permanent once a fetch has been issued.
\* In a behaviour in which every issued fetch delivers its result, a
\* component for which at least one command was issued is at last, and for
\* good, not loading (Ready, or showing the error of the last result).
\* Before the first command is issued the constructed component is loading
\* with nothing under way.
C25_LoadingEndsOnceFetched ==
    <>[](done = Issued) => <>[](Issued > 0 => ~m.loading)

\* Two commands were issued, both closures have returned, the last one with
\* an image: the component is Ready.
C25_Witness ==
    /\ Issued = 2
    /\ done = 2
    /\ ~m.loading
    /\ m.errorMsg = ""
    /\ m.imageData # EmptyBytes

\* C26: the protocol is chosen by the constructor and never changes: no
\* message Update handles (key, result of a fetch, metadata, spinner tick),
\* no render and no fallback inside a render, and no step of a closure,
\* changes m.protocol, which stays what detectImageProtocol found in the
\* environment the component was constructed in.
C26_ProtocolFixed ==
    /\ [](m.protocol = detectImageProtocol(environ))
    /\ [][m'.protocol = m.protocol]_vars

\* The kitty component has rendered a frame by falling back to ASCII after a
\* key and a metadata message were handled.
C26_Witness ==
    /\ m.protocol = ProtocolKitty
    /\ m.imageData.kind = "png"
    /\ m.renderedImage = renderASCII(m)
    /\ nMeta > 0
    /\ done > 0

\* C27: for every image that decodes and every size of the component, the
\* ASCII renderer gives gridHeight rows (each ended by a newline) of
\* gridWidth glyphs, gridWidth being width - 4 within 40..100 and gridHeight
\* height - 8 within 15..40, and the glyph of cell (x, y) is that of the
\* pixel at floor(x * sourceWidth / gridWidth), floor(y * sourceHeight /
\* gridHeight), taken no further than the last pixel of the image.
FloorSample(i, extent, n) ==
    LET p == (i * extent) \div n
    IN  IF p >= extent THEN extent - 1 ELSE p

FloorGrid(d, width, height) ==
    LET img == d.img
        gridWidth == Clamp(width - 4, 40, 100)
        gridHeight == Clamp(height - 8, 15, 40)
    IN  [y \in 1..gridHeight |->
            [x \in 1..gridWidth |->
                Glyph(img, FloorSample(x - 1, img.dx, gridWidth),
                           FloorSample(y - 1, img.dy, gridHeight))]]

floorTable ==
    [d \in {b \in Bodies : b.kind = "png"}, w \in Widths, hh \in Heights |->
        FloorGrid(d, w, hh)]

C27_AsciiGrid ==
    [][\A o \in HttpOutcomes, h \in OutcomesFor(m.protocol) :
          (/\ DoFetch(o, h)
           /\ m.protocol = ProtocolASCII
           /\ ~Failed(o)
           /\ o.body.kind = "png")
              => m'.renderedImage = floorTable[o.body, m.width, m.height]]_vars

\* C28: SetBounds puts the centre at the midpoint of the given bounds and
\* leaves the zoom level as it is.  Update calls it when a metadata message
\* carries bounds, before it returns the fetch command of that message, so
\* the component then holds the given bounds as its bbox; a metadata
\* message without bounds leaves centre, zoom and bbox unchanged; and but
\* for the zoom and pan keys nothing else changes them.
IsMidpoint(c, lo, hi) == Plus(c, c) = Plus(lo, hi)

C28_SetBoundsMidpoint ==
    [][/\ \A b \in MetaBounds, s \in MetaStyles :
              UpdateMetadata(b, s)
                  => /\ Issued' = Issued + 1
                     /\ IF b = NilBounds
                        THEN ViewportOf(m') = ViewportOf(m)
                        ELSE /\ IsMidpoint(m'.centerX, b[1], b[3])
                             /\ IsMidpoint(m'.centerY, b[2], b[4])
                             /\ m'.zoomLevel = m.zoomLevel
                             /\ m'.bbox = b
                             /\ Request(m').bbox = b
       /\ ViewportOf(m') # ViewportOf(m)
              => \/ \E k \in Keys : MutatingKey(k)
                 \/ \E b \in MetaBounds \ {NilBounds}, s \in MetaStyles :
                        UpdateMetadata(b, s) \/ FetchPanicsSetStyles(b, s)]_vars

\* The metadata message brought the extent [90, 0, 180, 90] after the
\* refresh key: the centre is (135, 45), the zoom level is still the
\* constructor's and the handler has returned the second fetch command.
C28_Witness ==
    /\ nMeta = 1
    /\ m.bbox = ExtentB
    /\ m.centerX = Rat(Deg90 + Deg45)
    /\ m.centerY = Rat(Deg45)
    /\ m.zoomLevel = InitZoom
    /\ Issued = 2

\* C29: after any sequence of pans and zooms from a centre inside the world,
\* the centre is inside [-180, 180] x [-90, 90] and inside the bbox, pans
\* against a world edge where the bbox is clamped included.
Between(v, lo, hi) == ~Lt(v, lo) /\ ~Gt(v, hi)

C29_CentreInside ==
    /\ Between(m.centerX, Rat(0 - Deg180), Rat(Deg180))
    /\ Between(m.centerY, Rat(0 - Deg90), Rat(Deg90))
    /\ Between(m.centerX, m.bbox[1], m.bbox[3])
    /\ Between(m.centerY, m.bbox[2], m.bbox[4])

\* C30: each command changes only its own part of the state.  Refresh leaves
\* centre, zoom, bbox and the styles unchanged; the zoom keys leave the
\* centre and the styles unchanged; the four pans leave the zoom, the
\* styles and the centre coordinate of the other axis unchanged; the style
\* keys leave centre, zoom and bbox unchanged; and the result of a fetch
\* leaves centre, zoom, bbox and the styles unchanged.
C30_FrameEffects ==
    [][/\ \A k \in Keys :
              /\ KeyRefresh(k)
                     => ViewportOf(m') = ViewportOf(m) /\ StylesOf(m') = StylesOf(m)
              /\ (KeyZoomIn(k) \/ KeyZoomOut(k))
                     => /\ m'.centerX = m.centerX
                        /\ m'.centerY = m.centerY
                        /\ StylesOf(m') = StylesOf(m)
              /\ (KeyPanUp(k) \/ KeyPanDown(k))
                     => /\ m'.zoomLevel = m.zoomLevel
                        /\ m'.centerX = m.centerX
                        /\ StylesOf(m') = StylesOf(m)
              /\ (KeyPanLeft(k) \/ KeyPanRight(k))
                     => /\ m'.zoomLevel = m.zoomLevel
                        /\ m'.centerY = m.centerY
                        /\ StylesOf(m') = StylesOf(m)
              /\ (KeyNextStyle(k) \/ KeyPrevStyle(k))
                     => ViewportOf(m') = ViewportOf(m) /\ m'.styles = m.styles
       /\ \A req \in BagToSet(sent), msg \in Results, h \in OutcomesFor(m.protocol) :
              UpdateMapPreviewMsg(req, msg, h)
                  => ViewportOf(m') = ViewportOf(m) /\ StylesOf(m') = StylesOf(m)]_vars

\* The closure of the metadata message's command has returned an image and
\* the zoom-out key was handled: the centre is still the midpoint of the
\* extent, the zoom level is the key's and the style is still the first of
\* two.
C30_Witness ==
    /\ m.centerX = Rat(Deg90 + Deg45)
    /\ m.centerY = Rat(Deg45)
    /\ m.zoomLevel = InitZoom - 1
    /\ m.currentStyle = 0
    /\ Len(m.styles) = 2
    /\ pending = 1
    /\ done = 1
    /\ m.imageData.kind = "png"

====
